---- MODULE Spec2Model ----
(***************************************************************************)
(* Model of the Ollama chat adapter: the message mapper                    *)
(* (convertToOllamaChatMessages), the argument builder (getArguments) and  *)
(* the two entry points doGenerate and doStream of OllamaChatLanguageModel.*)
(*                                                                         *)
(* JavaScript strings are sequences of one-character strings, so that      *)
(* concatenation (+=, join, template literals) is \o and two strings are   *)
(* equal exactly when their characters are.  JavaScript numbers that may   *)
(* be NaN or undefined are records [t, v] with t in "num", "nan",          *)
(* "undefined".                                                            *)
(***************************************************************************)
EXTENDS Integers, Sequences, FiniteSets, TLC

(***************************************************************************)
(* Bounds of the model.                                                    *)
(***************************************************************************)
\* messages in a prompt given to the message mapper
MaxMsgs == 2
\* content parts in a prompt, counted over all its messages
MaxParts == 2
\* records decoded from one streamed response body
MaxRecords == 4

(***************************************************************************)
(* JavaScript values and their string conversions.                         *)
(***************************************************************************)
Num(n) == [t |-> "num", v |-> n]
NaN == [t |-> "nan", v |-> 0]
Undefined == [t |-> "undefined", v |-> 0]

\* a || b on an optional number: a is falsy when undefined, 0 or NaN
OrElse(a, b) == IF a.t = "num" /\ a.v # 0 THEN a ELSE b

Digit(d) ==
  CASE d = 0 -> "0" [] d = 1 -> "1" [] d = 2 -> "2" [] d = 3 -> "3"
    [] d = 4 -> "4" [] d = 5 -> "5" [] d = 6 -> "6" [] d = 7 -> "7"
    [] d = 8 -> "8" [] d = 9 -> "9"

RECURSIVE Digits(_)
Digits(n) == IF n < 10 THEN <<Digit(n)>> ELSE Digits(n \div 10) \o <<Digit(n % 10)>>

RECURSIVE Join(_, _)
\* Array.prototype.join over already stringified elements
Join(strs, sep) ==
  IF strs = <<>> THEN <<>>
  ELSE IF Len(strs) = 1 THEN strs[1]
  ELSE strs[1] \o sep \o Join(Tail(strs), sep)

Quote(s) == <<"\"">> \o s \o <<"\"">>

\* The values a tool result takes in the model.  A value is a record
\* [t, s, n, items]: t is its kind, s the characters of a string (or the
\* single key of an object), n a number (or the value under the key, or the
\* truth value 0/1), items the numbers of an array.
JsString(s) == [t |-> "string", s |-> s, n |-> 0, items |-> <<>>]
JsNumber(n) == [t |-> "number", s |-> <<>>, n |-> n, items |-> <<>>]
JsBoolean(b) == [t |-> "boolean", s |-> <<>>, n |-> IF b THEN 1 ELSE 0, items |-> <<>>]
JsNull == [t |-> "null", s |-> <<>>, n |-> 0, items |-> <<>>]
JsUndefined == [t |-> "undefined", s |-> <<>>, n |-> 0, items |-> <<>>]
JsArray(items) == [t |-> "array", s |-> <<>>, n |-> 0, items |-> items]
JsObject(key, n) == [t |-> "object", s |-> key, n |-> n, items |-> <<>>]

\* the typeof operator
TypeOf(val) ==
  CASE val.t \in {"null", "array", "object"} -> "object"
    [] OTHER -> val.t

\* JSON.stringify
JSONStringify(val) ==
  CASE val.t = "string" -> Quote(val.s)
    [] val.t = "number" -> Digits(val.n)
    [] val.t = "boolean" -> IF val.n = 1 THEN <<"t", "r", "u", "e">> ELSE <<"f", "a", "l", "s", "e">>
    [] val.t = "null" -> <<"n", "u", "l", "l">>
    [] val.t = "array" ->
         <<"[">> \o Join([i \in 1..Len(val.items) |-> Digits(val.items[i])], <<",">>) \o <<"]">>
    [] val.t = "object" -> <<"{">> \o Quote(val.s) \o <<":">> \o Digits(val.n) \o <<"}">>

\* the template literal `${val}`
TemplateString(val) ==
  CASE val.t = "string" -> val.s
    [] val.t = "number" -> Digits(val.n)
    [] val.t = "boolean" -> IF val.n = 1 THEN <<"t", "r", "u", "e">> ELSE <<"f", "a", "l", "s", "e">>
    [] val.t = "null" -> <<"n", "u", "l", "l">>
    [] val.t = "undefined" -> <<"u", "n", "d", "e", "f", "i", "n", "e", "d">>
    [] val.t = "array" -> Join([i \in 1..Len(val.items) |-> Digits(val.items[i])], <<",">>)
    [] val.t = "object" ->
         <<"[", "o", "b", "j", "e", "c", "t", " ", "O", "b", "j", "e", "c", "t", "]">>

Base64Alphabet ==
  <<"A", "B", "C", "D", "E", "F", "G", "H", "I", "J", "K", "L", "M", "N", "O", "P",
    "Q", "R", "S", "T", "U", "V", "W", "X", "Y", "Z", "a", "b", "c", "d", "e", "f",
    "g", "h", "i", "j", "k", "l", "m", "n", "o", "p", "q", "r", "s", "t", "u", "v",
    "w", "x", "y", "z", "0", "1", "2", "3", "4", "5", "6", "7", "8", "9", "+", "/">>

B64(i) == Base64Alphabet[i + 1]

RECURSIVE convertUint8ArrayToBase64(_)
convertUint8ArrayToBase64(bytes) ==
  IF bytes = <<>> THEN <<>>
  ELSE IF Len(bytes) = 1 THEN
    <<B64(bytes[1] \div 4), B64((bytes[1] % 4) * 16), "=", "=">>
  ELSE IF Len(bytes) = 2 THEN
    <<B64(bytes[1] \div 4), B64((bytes[1] % 4) * 16 + bytes[2] \div 16),
      B64((bytes[2] % 16) * 4), "=">>
  ELSE
    <<B64(bytes[1] \div 4), B64((bytes[1] % 4) * 16 + bytes[2] \div 16),
      B64((bytes[2] % 16) * 4 + bytes[3] \div 64), B64(bytes[3] % 64)>>
      \o convertUint8ArrayToBase64(SubSeq(bytes, 4, Len(bytes)))

(***************************************************************************)
(* The normalized prompt (LanguageModelV1Prompt).                          *)
(***************************************************************************)
TextPart(text) == [type |-> "text", text |-> text]
\* an image part holds either a URL or a Uint8Array
ImagePart(instance, bytes) == [type |-> "image", image |-> [instanceof |-> instance, bytes |-> bytes]]
ToolCallPart(id) == [type |-> "tool-call", toolCallId |-> id]
ToolResultPart(id, result) == [type |-> "tool-result", toolCallId |-> id, result |-> result]

Texts == {<<"H", "i">>, <<"!">>}

UserParts ==
  {TextPart(t) : t \in Texts}
    \cup {ImagePart("URL", <<>>), ImagePart("Uint8Array", <<77, 97>>)}

AssistantParts == {TextPart(t) : t \in Texts} \cup {ToolCallPart("call1")}

ToolParts ==
  {ToolResultPart("call1", JsObject(<<"k">>, 42)), ToolResultPart("call2", JsString(<<"o", "k">>)),
   ToolResultPart("call1", JsArray(<<1, 23>>)), ToolResultPart("call2", JsNumber(7)),
   ToolResultPart("call1", JsNull), ToolResultPart("call2", JsBoolean(TRUE)),
   ToolResultPart("call1", JsUndefined)}

\* the sequences over S of length n
SeqsOfLen(S, n) == [1..n -> S]

\* the messages that carry exactly n parts (a system message is a text and
\* carries none)
MessagesOf(n) ==
  (IF n = 0 THEN {[role |-> "system", content |-> t] : t \in Texts} ELSE {})
    \cup {[role |-> "user", content |-> c] : c \in SeqsOfLen(UserParts, n)}
    \cup {[role |-> "assistant", content |-> c] : c \in SeqsOfLen(AssistantParts, n)}
    \cup {[role |-> "tool", content |-> c] : c \in SeqsOfLen(ToolParts, n)}

(***************************************************************************)
(* convertToOllamaChatMessages                                             *)
(***************************************************************************)
UnsupportedFunctionalityError(functionality) ==
  [name |-> "AI_UnsupportedFunctionalityError", functionality |-> functionality]
Error(message) == [name |-> "Error", functionality |-> message]
NoError == [name |-> "none", functionality |-> ""]

\* no tools are passed by the mapper, and the injector then returns the
\* system text unchanged
injectToolsSchemaIntoSystem(system) == system

Returned(value) == [threw |-> FALSE, value |-> value, error |-> NoError]
Threw(error) == [threw |-> TRUE, value |-> <<>>, error |-> error]

\* a reducer that assigns the text where the mapper appends it
UserReduceStep_Overwrite(previous, current) ==
  IF current.type = "text" THEN
    Returned([previous EXCEPT !.content = current.text])
  ELSE IF current.type = "image" /\ current.image.instanceof = "URL" THEN
    Threw(UnsupportedFunctionalityError("image-part"))
  ELSE IF current.type = "image" /\ current.image.instanceof = "Uint8Array" THEN
    LET images == IF "images" \in DOMAIN previous THEN previous.images ELSE <<>>
    IN Returned([k \in DOMAIN previous \cup {"images"} |->
                  IF k = "images" THEN Append(images, convertUint8ArrayToBase64(current.image.bytes))
                  ELSE previous[k]])
  ELSE Returned(previous)

\* a reducer that lets a URL image pass once the message holds a binary one
UserReduceStep_UrlAfterBinary(previous, current) ==
  IF current.type = "text" THEN
    Returned([previous EXCEPT !.content = @ \o current.text])
  ELSE IF current.type = "image" /\ current.image.instanceof = "URL"
          /\ "images" \notin DOMAIN previous THEN
    Threw(UnsupportedFunctionalityError("image-part"))
  ELSE IF current.type = "image" /\ current.image.instanceof = "Uint8Array" THEN
    LET images == IF "images" \in DOMAIN previous THEN previous.images ELSE <<>>
    IN Returned([k \in DOMAIN previous \cup {"images"} |->
                  IF k = "images" THEN Append(images, convertUint8ArrayToBase64(current.image.bytes))
                  ELSE previous[k]])
  ELSE Returned(previous)

\* one step of the reducer of a user message's parts; previous is the
\* accumulator {content, images?}
UserReduceStep(previous, current) ==
  IF current.type = "text" THEN
    Returned([previous EXCEPT !.content = @ \o current.text])
  ELSE IF current.type = "image" /\ current.image.instanceof = "URL" THEN
    Threw(UnsupportedFunctionalityError("image-part"))
  ELSE IF current.type = "image" /\ current.image.instanceof = "Uint8Array" THEN
    LET images == IF "images" \in DOMAIN previous THEN previous.images ELSE <<>>
    IN Returned([k \in DOMAIN previous \cup {"images"} |->
                  IF k = "images" THEN Append(images, convertUint8ArrayToBase64(current.image.bytes))
                  ELSE previous[k]])
  ELSE Returned(previous)

RECURSIVE UserReduce(_, _)
\* content.reduce(step, previous), left to right, stopping at a throw
UserReduce(content, previous) ==
  IF content = <<>> THEN Returned(previous)
  ELSE LET r == UserReduceStep(previous, Head(content))
       IN IF r.threw THEN r ELSE UserReduce(Tail(content), r.value)

\* a mapper that passes every result through the template literal
ToolContent_AlwaysTemplate(result) == TemplateString(result)

\* the content of the target message of a tool result
ToolContent(result) ==
  IF TypeOf(result) = "object" THEN JSONStringify(result) ELSE TemplateString(result)

\* the target messages one prompt message turns into, or the error thrown
ConvertMessage(message) ==
  CASE message.role = "system" ->
         Returned(<<[content |-> injectToolsSchemaIntoSystem(message.content), role |-> "system"]>>)
    [] message.role = "user" ->
         LET r == UserReduce(message.content, [content |-> <<>>])
         IN IF r.threw THEN r
            ELSE Returned(<<[k \in DOMAIN r.value \cup {"role"} |->
                              IF k = "role" THEN "user" ELSE r.value[k]]>>)
    [] message.role = "assistant" ->
         Returned(<<[content |->
                       Join([i \in 1..Len(message.content) |->
                              IF message.content[i].type = "text"
                              THEN message.content[i].text ELSE <<>>], <<>>),
                     role |-> "assistant"]>>)
    [] message.role = "tool" ->
         Returned([i \in 1..Len(message.content) |->
                    [content |-> ToolContent(message.content[i].result),
                     role |-> "tool",
                     tool_call_id |-> message.content[i].toolCallId]])
    [] OTHER -> Threw(Error("Unsupported role"))

RECURSIVE ConvertFrom(_, _)
\* the for loop over the prompt, messages being the list pushed so far
ConvertFrom(prompt, messages) ==
  IF prompt = <<>> THEN Returned(messages)
  ELSE LET r == ConvertMessage(Head(prompt))
       IN IF r.threw THEN r ELSE ConvertFrom(Tail(prompt), messages \o r.value)

convertToOllamaChatMessages(prompt) == ConvertFrom(prompt, <<>>)

(***************************************************************************)
(* OllamaChatLanguageModel: one call of doGenerate or doStream.            *)
(***************************************************************************)
VARIABLES
  op,            \* the entry point called: "doGenerate" or "doStream"
  mode,          \* options.mode.type
  prompt,        \* options.prompt
  pc,            \* where the call stands
  baseArguments, \* getArguments' local: the mapped messages, when mapped
  args,          \* what getArguments returned
  thrown,        \* the error the call failed with, NoError if none
  requests,      \* HTTP requests handed to postJsonToApi
  aborted,       \* options.abortSignal has been triggered
  response,      \* the parsed body of a doGenerate response
  result,        \* what doGenerate returned
  received,      \* the decoded records the transform has taken so far
  finishReason,  \* doStream's closure state
  usage,         \* doStream's closure state
  emitted        \* the events enqueued on the output stream, in order

vars ==
  <<op, mode, prompt, pc, baseArguments, args, thrown, requests, aborted,
    response, result, received, finishReason, usage, emitted>>

Ops == {"doGenerate", "doStream"}
Modes == {"regular", "object-json", "object-tool", "object-grammar"}

TEST_PROMPT == <<[role |-> "user", content |-> <<TextPart(<<"H", "e", "l", "l", "o">>)>>]>>
\* the prompts of the calls that are followed through their response
CallPrompts ==
  {TEST_PROMPT,
   <<[role |-> "user", content |-> <<TextPart(<<"H", "i">>), ImagePart("URL", <<>>)>>]>>}

NoMessages == <<[unset |-> TRUE]>>
NoArgs == [messages |-> NoMessages, format |-> "unset"]
NoResponse == [content |-> <<>>, eval_count |-> NaN, prompt_eval_count |-> Undefined]
NoUsage == [completionTokens |-> Undefined, promptTokens |-> Undefined]
NoResult == [finishReason |-> "unset", text |-> <<>>, usage |-> NoUsage]

\* before the call
Init ==
  /\ pc = "idle"
  /\ op = "unset"
  /\ mode = "unset"
  /\ prompt = <<>>
  /\ baseArguments = NoMessages
  /\ args = NoArgs
  /\ thrown = NoError
  /\ requests = 0
  /\ aborted = FALSE
  /\ response = NoResponse
  /\ result = NoResult
  /\ received = <<>>
  /\ finishReason = "unset"
  /\ usage = NoUsage
  /\ emitted = <<>>

RECURSIVE PromptIs(_, _, _, _)
\* p is a prompt that extends the messages so far by at most m messages
\* holding at most n parts in all
PromptIs(p, sofar, m, n) ==
  \/ p = sofar
  \/ /\ m > 0
     /\ \E k \in 0..n : \E msg \in MessagesOf(k) : PromptIs(p, Append(sofar, msg), m - 1, n - k)

\* the caller calls doGenerate or doStream with its options
Call ==
  /\ pc = "idle"
  /\ op' \in Ops
  /\ mode' \in Modes
  /\ prompt' \in CallPrompts
  /\ pc' = "getArguments"
  /\ UNCHANGED <<baseArguments, args, thrown, requests, aborted, response, result,
                 received, finishReason, usage, emitted>>

\* the same call, over every prompt within the bounds
CallAnyPrompt ==
  /\ pc = "idle"
  /\ op' \in Ops
  /\ mode' \in Modes
  /\ PromptIs(prompt', <<>>, MaxMsgs, MaxParts)
  /\ pc' = "getArguments"
  /\ UNCHANGED <<baseArguments, args, thrown, requests, aborted, response, result,
                 received, finishReason, usage, emitted>>

\* a switch whose object-tool case builds a request like the regular one
SwitchType_ToolAsRegular(type, messages) ==
  CASE type \in {"regular", "object-tool"} -> Returned([messages |-> messages, format |-> "absent"])
    [] type = "object-json" -> Returned([messages |-> messages, format |-> "json"])
    [] type = "object-grammar" -> Threw(UnsupportedFunctionalityError("object-grammar mode"))
    [] OTHER -> Threw(Error("Unsupported type"))

\* the switch of getArguments over mode.type, given the mapped messages
SwitchType(type, messages) ==
  CASE type = "regular" -> Returned([messages |-> messages, format |-> "absent"])
    [] type = "object-json" -> Returned([messages |-> messages, format |-> "json"])
    [] type = "object-tool" -> Threw(UnsupportedFunctionalityError("object-tool mode"))
    [] type = "object-grammar" -> Threw(UnsupportedFunctionalityError("object-grammar mode"))
    [] OTHER -> Threw(Error("Unsupported type"))

\* getArguments, called first by doGenerate and by doStream: it maps the
\* prompt, then switches over the mode; a throw rejects the call
GetArguments ==
  /\ pc = "getArguments"
  /\ LET m == convertToOllamaChatMessages(prompt)
     IN IF m.threw
        THEN /\ thrown' = m.error
             /\ pc' = "thrown"
             /\ UNCHANGED <<baseArguments, args>>
        ELSE LET a == SwitchType(mode, m.value)
             IN /\ baseArguments' = m.value
                /\ IF a.threw
                   THEN /\ thrown' = a.error
                        /\ pc' = "thrown"
                        /\ args' = args
                   ELSE /\ args' = a.value
                        /\ pc' = "postJsonToApi"
                        /\ thrown' = thrown
  /\ UNCHANGED <<op, mode, prompt, requests, aborted, response, result, received,
                 finishReason, usage, emitted>>

\* postJsonToApi sends the request and the call awaits the response
Dispatch ==
  /\ pc = "postJsonToApi"
  /\ requests' = requests + 1
  /\ pc' = "awaitResponse"
  /\ UNCHANGED <<op, mode, prompt, baseArguments, args, thrown, aborted, response,
                 result, received, finishReason, usage, emitted>>

(***************************************************************************)
(* The response of a doGenerate call.                                      *)
(***************************************************************************)
\* bodies that pass ollamaChatChunkSchema: prompt_eval_count is optional
Responses ==
  [content : {<<>>, <<"H", "i">>},
   eval_count : {Num(0), Num(20)},
   prompt_eval_count : {Undefined, Num(0), Num(25)}]

\* what doGenerate returns for a parsed response
GenerateResult(resp) ==
  [finishReason |-> "stop",
   text |-> resp.content,
   usage |-> [completionTokens |-> NaN,
              promptTokens |-> OrElse(resp.prompt_eval_count, NaN)]]

\* the response of a doGenerate call arrives and the call returns
GenerateReturn ==
  /\ pc = "awaitResponse"
  /\ op = "doGenerate"
  /\ \E resp \in Responses :
       /\ response' = resp
       /\ result' = GenerateResult(resp)
  /\ pc' = "returned"
  /\ UNCHANGED <<op, mode, prompt, baseArguments, args, thrown, requests, aborted,
                 received, finishReason, usage, emitted>>

\* the request fails (no connection, or a status that
\* ollamaFailedResponseHandler turns into an error): the call rejects
FailedResponse ==
  /\ pc = "awaitResponse"
  /\ thrown' = [name |-> "AI_APICallError", functionality |-> ""]
  /\ pc' = "thrown"
  /\ UNCHANGED <<op, mode, prompt, baseArguments, args, requests, aborted, response,
                 result, received, finishReason, usage, emitted>>

(***************************************************************************)
(* The response of a doStream call: the records of the decoded body pass   *)
(* through the TransformStream one at a time.                              *)
(***************************************************************************)
Failure(error) == [success |-> FALSE, error |-> error]
NonTerminal(content) ==
  [success |-> TRUE, value |-> [done |-> FALSE, message |-> [content |-> content]]]
Terminal(eval_count, prompt_eval_count) ==
  [success |-> TRUE,
   value |-> [done |-> TRUE, eval_count |-> eval_count, prompt_eval_count |-> prompt_eval_count]]

\* the parse results createJsonStreamResponseHandler delivers for
\* ollamaChatStreamChunkSchema
Chunks ==
  {Failure(e) : e \in {"JSONParseError", "TypeValidationError"}}
    \cup {NonTerminal(c) : c \in {<<>>, <<"H", "i">>, <<"!">>}}
    \cup {Terminal(Num(n), p) : n \in {0, 290}, p \in {Undefined, Num(26)}}

TextDelta(textDelta) == [type |-> "text-delta", textDelta |-> textDelta]
ErrorEvent(error) == [type |-> "error", error |-> error]
Finish(reason, u) == [type |-> "finish", finishReason |-> reason, usage |-> u]

mapOllamaFinishReason(reason) == IF reason = "stop" THEN "stop" ELSE "other"

\* a reducer that starts from the finish reason 'unknown'
InitialFinishReason_Unknown == "unknown"

InitialFinishReason == "other"
InitialUsage == [completionTokens |-> NaN, promptTokens |-> NaN]

\* the null a message content is tested against; no string equals it
Null == <<"null value">>

\* a transform that emits the finish event when the terminal record arrives
Transform_FinishOnDone(st, chunk) ==
  IF ~chunk.success THEN
    [st EXCEPT !.emitted = Append(@, ErrorEvent(chunk.error))]
  ELSE IF chunk.value.done THEN
    [st EXCEPT !.finishReason = mapOllamaFinishReason("stop"),
               !.usage = [completionTokens |-> chunk.value.eval_count, promptTokens |-> NaN],
               !.emitted = Append(@, Finish(mapOllamaFinishReason("stop"),
                                            [completionTokens |-> chunk.value.eval_count,
                                             promptTokens |-> NaN]))]
  ELSE IF chunk.value.message.content # Null THEN
    [st EXCEPT !.emitted = Append(@, TextDelta(chunk.value.message.content))]
  ELSE st

\* a transform that reports the terminal record's prompt_eval_count
Transform_PromptTokens(st, chunk) ==
  IF ~chunk.success THEN
    [st EXCEPT !.emitted = Append(@, ErrorEvent(chunk.error))]
  ELSE IF chunk.value.done THEN
    [st EXCEPT !.finishReason = mapOllamaFinishReason("stop"),
               !.usage = [completionTokens |-> chunk.value.eval_count,
                          promptTokens |-> OrElse(chunk.value.prompt_eval_count, NaN)]]
  ELSE IF chunk.value.message.content # Null THEN
    [st EXCEPT !.emitted = Append(@, TextDelta(chunk.value.message.content))]
  ELSE st

\* a transform that records a decode failure as the finish reason
Transform_FailureSetsError(st, chunk) ==
  IF ~chunk.success THEN
    [st EXCEPT !.emitted = Append(@, ErrorEvent(chunk.error)), !.finishReason = "error"]
  ELSE IF chunk.value.done THEN
    [st EXCEPT !.finishReason = mapOllamaFinishReason("stop"),
               !.usage = [completionTokens |-> chunk.value.eval_count, promptTokens |-> NaN]]
  ELSE IF chunk.value.message.content # Null THEN
    [st EXCEPT !.emitted = Append(@, TextDelta(chunk.value.message.content))]
  ELSE st

\* transform(chunk, controller) on the closure state st = [finishReason,
\* usage, emitted]; emitted is what the controller has been given
Transform(st, chunk) ==
  IF ~chunk.success THEN
    [st EXCEPT !.emitted = Append(@, ErrorEvent(chunk.error))]
  ELSE IF chunk.value.done THEN
    [st EXCEPT !.finishReason = mapOllamaFinishReason("stop"),
               !.usage = [completionTokens |-> chunk.value.eval_count, promptTokens |-> NaN]]
  ELSE IF chunk.value.message.content # Null THEN
    [st EXCEPT !.emitted = Append(@, TextDelta(chunk.value.message.content))]
  ELSE st

\* flush(controller)
Flush(st) == [st EXCEPT !.emitted = Append(@, Finish(st.finishReason, st.usage))]

\* the response headers of a doStream call arrive: doStream sets up its
\* closure state and returns the piped stream
StreamReturn ==
  /\ pc = "awaitResponse"
  /\ op = "doStream"
  /\ finishReason' = InitialFinishReason
  /\ usage' = InitialUsage
  /\ pc' = "streaming"
  /\ UNCHANGED <<op, mode, prompt, baseArguments, args, thrown, requests, aborted,
                 response, result, received, emitted>>

\* the next decoded record arrives and is transformed
TransformChunk ==
  /\ pc = "streaming"
  /\ Len(received) < MaxRecords
  /\ \E chunk \in Chunks :
       LET st == Transform([finishReason |-> finishReason, usage |-> usage,
                            emitted |-> emitted], chunk)
       IN /\ received' = Append(received, chunk)
          /\ finishReason' = st.finishReason
          /\ usage' = st.usage
          /\ emitted' = st.emitted
  /\ UNCHANGED <<op, mode, prompt, pc, baseArguments, args, thrown, requests, aborted,
                 response, result>>

\* the decoded stream ends: the TransformStream flushes and closes
StreamEnd ==
  /\ pc = "streaming"
  /\ LET st == Flush([finishReason |-> finishReason, usage |-> usage, emitted |-> emitted])
     IN emitted' = st.emitted
  /\ pc' = "closed"
  /\ UNCHANGED <<op, mode, prompt, baseArguments, args, thrown, requests, aborted,
                 response, result, received, finishReason, usage>>

\* a call whose abortSignal is not handed to postJsonToApi stays where it is
OnAbortSignal_NotPassed(at) == at

\* where a triggered abortSignal leaves a call suspended at `at`: the signal
\* is handed to postJsonToApi, whose fetch rejects with an AbortError while
\* the headers are awaited and whose body stream errors with it afterwards;
\* the error passes down the pipe and flush is not run
OnAbortSignal(at) == "aborted"

\* the caller triggers options.abortSignal while the call is suspended
Abort ==
  /\ pc \in {"awaitResponse", "streaming"}
  /\ aborted' = TRUE
  /\ pc' = OnAbortSignal(pc)
  /\ thrown' = IF pc' = "aborted" THEN [name |-> "AbortError", functionality |-> ""] ELSE thrown
  /\ UNCHANGED <<op, mode, prompt, baseArguments, args, requests, response, result,
                 received, finishReason, usage, emitted>>

Next ==
  \/ Call
  \/ GetArguments
  \/ Dispatch
  \/ GenerateReturn
  \/ FailedResponse
  \/ StreamReturn
  \/ TransformChunk
  \/ StreamEnd
  \/ Abort

Spec == Init /\ [][Next]_vars

NextArguments == CallAnyPrompt \/ GetArguments \/ Dispatch

SpecArguments == Init /\ [][NextArguments]_vars

(***************************************************************************)
(* Properties.                                                             *)
(***************************************************************************)
IsSuccess(chunk) == chunk.success
IsFailure(chunk) == ~chunk.success
IsTerminal(chunk) == chunk.success /\ chunk.value.done
IsNonTerminal(chunk) == chunk.success /\ ~chunk.value.done
IsNotFinish(event) == event.type # "finish"
IsNotError(event) == event.type # "error"

FinishEvents(events) == {i \in DOMAIN events : events[i].type = "finish"}

\* C1: when the decoded stream of a doStream call has ended, whatever
\* records it held, the emitted events hold exactly one finish event and it
\* is the last one; none is emitted before the end.
C1_ExactlyOneFinishLast ==
  /\ pc = "streaming" => FinishEvents(emitted) = {}
  /\ pc = "closed" => /\ emitted # <<>>
                       /\ FinishEvents(emitted) = {Len(emitted)}

\* a stream has ended in which records follow a terminal record and a
\* decode failure occurs
C1_Witness ==
  /\ pc = "closed"
  /\ \E i, j \in DOMAIN received : i < j /\ IsTerminal(received[i])
  /\ \E i \in DOMAIN received : IsFailure(received[i])

\* the stream is k non-terminal records followed by one terminal record
FragmentsThenTerminal(records) ==
  /\ records # <<>>
  /\ IsTerminal(records[Len(records)])
  /\ \A i \in 1..(Len(records) - 1) : IsNonTerminal(records[i])

\* C2: for k fragments followed by one terminal record with eval_count n,
\* the events are the k text-deltas of the fragments, in order and one per
\* record, then one finish event {stop, {completionTokens: n, promptTokens:
\* NaN}}; processing the terminal record emits nothing.
C2_DeltasThenFinish ==
  FragmentsThenTerminal(received) =>
    LET k == Len(received) - 1
        deltas == [i \in 1..k |-> TextDelta(received[i].value.message.content)]
        finish == Finish("stop", [completionTokens |-> received[k + 1].value.eval_count,
                                  promptTokens |-> NaN])
    IN /\ pc = "streaming" => emitted = deltas
       /\ pc = "closed" => emitted = Append(deltas, finish)

\* three fragments and a terminal record that carries a prompt_eval_count
C2_Witness ==
  /\ pc = "closed"
  /\ FragmentsThenTerminal(received)
  /\ Len(received) = 4
  /\ received[1] # received[2]
  /\ received[4].value.prompt_eval_count = Num(26)
  /\ received[4].value.eval_count = Num(290)

\* C3: doGenerate returns finishReason 'stop', completionTokens NaN, and
\* promptTokens equal to the response's prompt_eval_count whenever it
\* carries one (0 included), NaN only when it carries none.
C3_GenerateUsage ==
  pc = "returned" =>
    /\ result.finishReason = "stop"
    /\ result.usage.completionTokens = NaN
    /\ result.usage.promptTokens =
         IF response.prompt_eval_count.t = "num" THEN response.prompt_eval_count ELSE NaN

UnsupportedModes == {"object-tool", "object-grammar"}
ModeFunctionality(type) ==
  IF type = "object-tool" THEN "object-tool mode" ELSE "object-grammar mode"

HasUrlImage(p) ==
  \E i \in DOMAIN p :
    /\ p[i].role = "user"
    /\ \E j \in DOMAIN p[i].content :
         /\ p[i].content[j].type = "image"
         /\ p[i].content[j].image.instanceof = "URL"

PastGetArguments == pc \notin {"idle", "getArguments"}

\* C4 as stated: for every prompt, a call with mode object-tool or
\* object-grammar fails with an UnsupportedFunctionality error that names
\* the mode, and no HTTP request is dispatched.
C4_AlwaysNamedForMode ==
  mode \in UnsupportedModes =>
    /\ requests = 0
    /\ PastGetArguments =>
         /\ pc = "thrown"
         /\ thrown = UnsupportedFunctionalityError(ModeFunctionality(mode))

\* C4 amended: for every prompt, a call with mode object-tool or
\* object-grammar fails with an UnsupportedFunctionality error and no HTTP
\* request is dispatched; the error names the mode unless the prompt holds
\* a user message with a URL image part, and then it names 'image-part'.
C4_UnsupportedModeRejected ==
  mode \in UnsupportedModes =>
    /\ requests = 0
    /\ PastGetArguments =>
         /\ pc = "thrown"
         /\ thrown = UnsupportedFunctionalityError(
                       IF HasUrlImage(prompt) THEN "image-part" ELSE ModeFunctionality(mode))

\* doStream has rejected an object-grammar call on a prompt of two messages
C4_Witness ==
  /\ op = "doStream"
  /\ mode = "object-grammar"
  /\ Len(prompt) = 2
  /\ pc = "thrown"
  /\ thrown = UnsupportedFunctionalityError("object-grammar mode")

\* the records that passed decoding, run alone through the transform
RECURSIVE TransformAll(_, _)
TransformAll(st, chunks) ==
  IF chunks = <<>> THEN st ELSE TransformAll(Transform(st, Head(chunks)), Tail(chunks))

\* the place among the events of the one the i-th record gives rise to
EventIndex(i) == Cardinality({j \in 1..i : ~IsTerminal(received[j])})

\* C5: every decode-failure record gives exactly one error event, at its
\* arrival position; it leaves finishReason and usage as they were, and the
\* other records are handled as if the failures were not there: the other
\* events, the closure state and the finish event are those of the stream
\* without its failure records.
C5_DecodeFailureIsolated ==
  pc \in {"streaming", "closed"} =>
    LET clean == TransformAll([finishReason |-> InitialFinishReason, usage |-> InitialUsage,
                               emitted |-> <<>>], SelectSeq(received, IsSuccess))
        body == SelectSeq(emitted, IsNotFinish)
    IN /\ \A i \in DOMAIN received :
            IsFailure(received[i]) =>
              /\ EventIndex(i) <= Len(body)
              /\ body[EventIndex(i)] = ErrorEvent(received[i].error)
       /\ Cardinality({i \in DOMAIN body : body[i].type = "error"})
            = Cardinality({i \in DOMAIN received : IsFailure(received[i])})
       /\ SelectSeq(body, IsNotError) = clean.emitted
       /\ finishReason = clean.finishReason
       /\ usage = clean.usage
       /\ pc = "closed" => emitted[Len(emitted)] = Finish(clean.finishReason, clean.usage)

\* a failure record, then a fragment, then a terminal record, then the end
C5_Witness ==
  /\ pc = "closed"
  /\ \E i, j, k \in DOMAIN received :
       /\ i < j /\ j < k
       /\ IsFailure(received[i])
       /\ IsNonTerminal(received[j])
       /\ IsTerminal(received[k])

\* C6: a stream that ends without a terminal record still ends the call
\* normally, with a finish event {other, {NaN, NaN}}; a finish event says
\* 'stop' only if a terminal record was processed.
C6_FinishWithoutTerminal ==
  pc = "closed" =>
    LET finish == emitted[Len(emitted)]
    IN /\ thrown = NoError
       /\ finish.type = "finish"
       /\ (\A i \in DOMAIN received : ~IsTerminal(received[i])) =>
            finish = Finish("other", [completionTokens |-> NaN, promptTokens |-> NaN])
       /\ finish.finishReason = "stop" => \E i \in DOMAIN received : IsTerminal(received[i])

\* a stream of a fragment and a decode failure has ended
C6_Witness ==
  /\ pc = "closed"
  /\ \A i \in DOMAIN received : ~IsTerminal(received[i])
  /\ \E i, j \in DOMAIN received : IsFailure(received[i]) /\ IsNonTerminal(received[j])

TextOnly(p) ==
  \A i \in DOMAIN p :
    /\ p[i].role \in {"system", "user", "assistant"}
    /\ p[i].role # "system" => \A j \in DOMAIN p[i].content : p[i].content[j].type = "text"

RECURSIVE TextOf(_)
\* the texts of a sequence of text parts, one after the other
TextOf(parts) == IF parts = <<>> THEN <<>> ELSE Head(parts).text \o TextOf(Tail(parts))

\* C8: a prompt of system, user and assistant messages that hold only text
\* maps to one target message per message, in order, with the same role,
\* the concatenated text as content and no images field.
C8_TextOnlyMapping ==
  PastGetArguments /\ TextOnly(prompt) =>
    /\ baseArguments # NoMessages
    /\ Len(baseArguments) = Len(prompt)
    /\ \A i \in DOMAIN prompt :
         /\ baseArguments[i].role = prompt[i].role
         /\ baseArguments[i].content =
              IF prompt[i].role = "system" THEN prompt[i].content ELSE TextOf(prompt[i].content)
         /\ DOMAIN baseArguments[i] = {"content", "role"}

\* a system message and a user message of two different texts
C8_Witness ==
  /\ PastGetArguments
  /\ Len(prompt) = 2
  /\ prompt[1].role = "system"
  /\ prompt[2].role = "user"
  /\ Len(prompt[2].content) = 2
  /\ prompt[2].content[1].type = "text"
  /\ prompt[2].content[2].type = "text"
  /\ prompt[2].content[1] # prompt[2].content[2]

\* C9: a prompt with a URL image part in a user message, wherever it
\* stands, makes the mapper fail with UnsupportedFunctionality 'image-part'
\* and return nothing, and the call fail before any HTTP request.
C9_UrlImageRejected ==
  HasUrlImage(prompt) =>
    /\ requests = 0
    /\ PastGetArguments =>
         /\ pc = "thrown"
         /\ thrown = UnsupportedFunctionalityError("image-part")
         /\ baseArguments = NoMessages
         /\ args = NoArgs

\* the URL image is the second part of the second message, after a
\* binary image
C9_Witness ==
  /\ pc = "thrown"
  /\ Len(prompt) = 2
  /\ prompt[2].role = "user"
  /\ Len(prompt[2].content) = 2
  /\ prompt[2].content[1].type = "image"
  /\ prompt[2].content[1].image.instanceof = "Uint8Array"
  /\ prompt[2].content[2].type = "image"
  /\ prompt[2].content[2].image.instanceof = "URL"

\* the number of target messages a prompt message maps to
TargetCount(message) == IF message.role = "tool" THEN Len(message.content) ELSE 1

RECURSIVE TargetsBefore(_, _)
\* the number of target messages of the first i - 1 messages of p
TargetsBefore(p, i) ==
  IF i <= 1 THEN 0 ELSE TargetsBefore(p, i - 1) + TargetCount(p[i - 1])

IsStructured(val) == val.t \in {"array", "object"}

\* C10: a tool message of n tool-result parts maps to n consecutive target
\* messages with role 'tool', in part order, at the message's place in the
\* output; each carries its part's toolCallId and, as content, the JSON
\* serialization of a structured result or the plain string of a primitive.
C10_ToolResultsMapping ==
  PastGetArguments /\ baseArguments # NoMessages =>
    /\ Len(baseArguments) = TargetsBefore(prompt, Len(prompt) + 1)
    /\ \A i \in DOMAIN prompt :
         prompt[i].role = "tool" =>
           \A k \in DOMAIN prompt[i].content :
             LET part == prompt[i].content[k]
                 target == baseArguments[TargetsBefore(prompt, i) + k]
             IN /\ target.role = "tool"
                /\ target.tool_call_id = part.toolCallId
                /\ target.content =
                     IF IsStructured(part.result) THEN JSONStringify(part.result)
                     ELSE TemplateString(part.result)

\* a tool message of an object result and a string result, standing second
\* in the prompt, has been mapped
C10_Witness ==
  /\ PastGetArguments
  /\ baseArguments # NoMessages
  /\ \E i \in DOMAIN prompt :
       /\ i > 1
       /\ prompt[i].role = "tool"
       /\ Len(prompt[i].content) = 2
       /\ prompt[i].content[1].result.t = "object"
       /\ prompt[i].content[2].result.t = "string"
       /\ prompt[i].content[1].toolCallId # prompt[i].content[2].toolCallId

====
